---- MODULE Spec2Model ----
(***************************************************************************)
(* Model of the graphgen crawler: the orchestrator WikipediaScraper::scrape, *)
(* the worker loop with its idle-flag termination protocol, the            *)
(* mutex-guarded graph store of scraper.rs, the lock-free graph store of   *)
(* worker.rs, and the undirected projection of save_to_file.               *)
(***************************************************************************)
EXTENDS Integers, Sequences, FiniteSets, TLC

\* ------------------------------------------------------------------ bounds
MaxThreads == 3
MaxDepth == 3

\* ------------------------------------------------------------------ pages
\* Canonical URLs as get_anchor_list returns them. Seed is the URL given to
\* WikipediaScraper::new; "X" stands for a canonical URL outside /wiki/.
Seed == "S"
Internal == {"S", "A", "B", "C", "D"}
External == {"X"}
URLs == Internal \cup External

IsInternalAny(u) == TRUE

\* anchor.starts_with("https://en.wikipedia.org/wiki/")
IsInternal(u) == u \in Internal

\* The anchor lists of the crawled site, one function per site.
Site(s, a, b, c) == [u \in URLs |-> CASE u = "S" -> s
                                     [] u = "A" -> a
                                     [] u = "B" -> b
                                     [] u = "C" -> c
                                     [] OTHER -> << >>]

Graphs ==
    { Site(<<"A", "B">>, <<"C">>, <<"C">>, << >>),
      Site(<<"A", "X">>, <<"S">>, << >>, << >>),
      Site(<<"S", "A", "A">>, <<"B">>, <<"C">>, <<"S">>),
      Site(<<"A">>, <<"B">>, <<"C">>, <<"S">>),
      Site(<<"A", "B">>, <<"S", "B">>, <<"A">>, << >>) }

\* A site with a fifth page.
Site5(s, a, b, c, d) == [Site(s, a, b, c) EXCEPT !["D"] = d]

\* D is an anchor of B (two links from the seed) and of C (three links).
OrderSite == Site5(<<"A", "B">>, <<"C">>, <<"D">>, <<"D">>, <<"S">>)

\* The sets of pages whose content holds none of the keywords.
FilterSets == { {}, {"S"}, {"A"} }

VARIABLES
    nt,           \* self.num_threads
    depth,        \* self.depth
    anchors,      \* the site: URL -> anchor list of its page
    filtered,     \* pages the keyword filter rejects
    orch,         \* position of scrape()/main
    joinIdx,      \* index of the handle being joined
    chan,         \* the unbounded channel (tx, rx)
    stopped,      \* stopped_threads
    pc,           \* position of each worker thread
    task,         \* the (url, depth) a worker dequeued
    todo,         \* rest of anchor_list in the for loop
    sid,          \* start_url_id
    aid,          \* anchor_id read for the anchor being inserted
    out,          \* out_links
    pages,        \* the page registry
    links,        \* the link set
    pagesLock,    \* holder of the pages mutex
    linksLock,    \* holder of the links mutex
    sentCnt,      \* history: sends of each URL to the channel
    deqCnt,       \* history: dequeues of each URL
    filteredSeen, \* history: URLs whose fetch was reported filtered
    regLog,       \* history: every <<url, how, id>> inserted in the registry
    nodesFile,    \* rows written to <output>_nodes.csv
    edgesFile,    \* rows written to <output>_edges.csv
    debugBuild    \* whether debug_assert! is compiled in (worker.rs only)

vars == << nt, depth, anchors, filtered, orch, joinIdx, chan, stopped, pc, task,
           todo, sid, aid, out, pages, links, pagesLock, linksLock, sentCnt,
           deqCnt, filteredSeen, regLog, nodesFile, edgesFile, debugBuild >>

Workers == 0 .. nt - 1
NoTask == << >>
NoId == -1
Free == -1
Poisoned == -2

\* ------------------------------------------------------------- helpers
MapInsertLost(m, k, v) == m

\* HashMap::insert(key, value): adds or replaces the entry of key.
MapInsert(m, k, v) == [x \in DOMAIN m \cup {k} |-> IF x = k THEN v ELSE m[x]]

NewIdSkipsZero(m) == Cardinality(DOMAIN m) + 1

NewIdOffByOne(m) == IF DOMAIN m = {} THEN 0 ELSE Cardinality(DOMAIN m) - 1

\* own_pages.len() as ID
NewId(m) == Cardinality(DOMAIN m)

ClearFlagsNone(st) == st

ClearFlagsFirstOnly(st) == [i \in DOMAIN st |-> IF i = 0 THEN FALSE ELSE st[i]]

\* stopped_threads.iter_mut().for_each(|x| *x = false)
ClearFlags(st) == [i \in DOMAIN st |-> FALSE]

\* locked_stopped_threads.iter().filter(|x| **x).count()
StoppedCount(st) == Cardinality({i \in DOMAIN st : st[i]})

AllStoppedAny(count, n) == count >= 1

\* if stopped_threads_count == nt
AllStopped(count, n) == count = n

ShouldFollowZero(d) == d > 0

\* if depth > 1
ShouldFollow(d) == d > 1

PageContentUnfiltered(u, filt) == "Some"

\* get_page_content: Some(content) unless keywords are set and none occurs.
PageContent(u, filt) == IF u \in filt THEN "None" ELSE "Some"

SkipTaskEmptyOnly(content, anchorList) == anchorList = << >>

SkipTaskFilteredOnly(content, anchorList) == content = "None"

\* scrape_with_depth returns Ok(vec![]) before touching the graph store.
SkipTask(content, anchorList) == content = "None" \/ anchorList = << >>

FollowOnAny(isNew, anchor) == IsInternal(anchor)

\* The anchor is pushed to out_links: only in the branch that inserted it.
FollowOn(isNew, anchor) == isNew /\ IsInternal(anchor)

\* ---------------------------------------------------------------- Init
InitOn(builds, sites, filters) ==
    /\ debugBuild \in builds
    /\ nt \in 1 .. MaxThreads
    /\ depth \in 1 .. MaxDepth
    /\ anchors \in sites
    /\ filtered \in filters
    /\ orch = "new"
    /\ joinIdx = 0
    /\ chan = << >>
    /\ stopped = [i \in 0 .. nt - 1 |-> FALSE]
    /\ pc = [i \in 0 .. nt - 1 |-> "unspawned"]
    /\ task = [i \in 0 .. nt - 1 |-> NoTask]
    /\ todo = [i \in 0 .. nt - 1 |-> << >>]
    /\ sid = [i \in 0 .. nt - 1 |-> NoId]
    /\ aid = [i \in 0 .. nt - 1 |-> NoId]
    /\ out = [i \in 0 .. nt - 1 |-> << >>]
    /\ pages = << >>
    /\ links = {}
    /\ pagesLock = Free
    /\ linksLock = Free
    /\ sentCnt = [u \in URLs |-> 0]
    /\ deqCnt = [u \in URLs |-> 0]
    /\ filteredSeen = {}
    /\ regLog = {}
    /\ nodesFile = {}
    /\ edgesFile = {}

InitWith(builds) == InitOn(builds, Graphs, FilterSets)

\* scraper.rs never reads the build kind: assert! is always compiled in.
Init == InitWith({FALSE})

\* -------------------------------------------------------- orchestrator
Running == orch = "join"

\* tx.send((self.url.to_owned(), self.depth))?
SendSeed ==
    /\ orch = "new"
    /\ chan' = Append(chan, <<Seed, depth>>)
    /\ sentCnt' = [sentCnt EXCEPT ![Seed] = @ + 1]
    /\ orch' = "spawn"
    /\ UNCHANGED << nt, depth, anchors, filtered, joinIdx, stopped, pc, task, todo,
                    sid, aid, out, pages, links, pagesLock, linksLock, deqCnt,
                    filteredSeen, regLog, nodesFile, edgesFile, debugBuild >>

\* (0..self.num_threads).map(|thread_idx| std::thread::spawn(..)).collect()
Spawn ==
    /\ orch = "spawn"
    /\ pc' = [i \in Workers |-> "select"]
    /\ orch' = "join"
    /\ UNCHANGED << nt, depth, anchors, filtered, joinIdx, chan, stopped, task, todo,
                    sid, aid, out, pages, links, pagesLock, linksLock, sentCnt,
                    deqCnt, filteredSeen, regLog, nodesFile, edgesFile, debugBuild >>

\* handles.into_iter().for_each(|handle| handle.join().unwrap().unwrap()):
\* the handles are joined in index order; an Err or a panic of the joined
\* thread panics the main thread, which ends the process.
Join ==
    /\ orch = "join"
    /\ pc[joinIdx] \in {"done", "err", "panic"}
    /\ IF pc[joinIdx] = "done"
         THEN IF joinIdx + 1 = nt
                THEN orch' = "ok" /\ joinIdx' = joinIdx
                ELSE orch' = orch /\ joinIdx' = joinIdx + 1
         ELSE orch' = "aborted" /\ joinIdx' = joinIdx
    /\ UNCHANGED << nt, depth, anchors, filtered, chan, stopped, pc, task, todo,
                    sid, aid, out, pages, links, pagesLock, linksLock, sentCnt,
                    deqCnt, filteredSeen, regLog, nodesFile, edgesFile, debugBuild >>

\* ------------------------------------------------------ the worker loop
\* select! { recv(rx) -> msg => .., default => .. }: takes the head of the
\* channel when there is one, the default branch otherwise.
Select(w) ==
    /\ Running
    /\ pc[w] = "select"
    /\ IF chan # << >>
         THEN /\ task' = [task EXCEPT ![w] = Head(chan)]
              /\ chan' = Tail(chan)
              /\ deqCnt' = [deqCnt EXCEPT ![Head(chan)[1]] = @ + 1]
              /\ pc' = [pc EXCEPT ![w] = "recv"]
         ELSE /\ pc' = [pc EXCEPT ![w] = "default"]
              /\ UNCHANGED << task, chan, deqCnt >>
    /\ UNCHANGED << nt, depth, anchors, filtered, orch, joinIdx, stopped, todo,
                    sid, aid, out, pages, links, pagesLock, linksLock, sentCnt,
                    filteredSeen, regLog, nodesFile, edgesFile, debugBuild >>

\* stopped_threads.lock().unwrap().iter_mut().for_each(|x| *x = false)
ClearAll(w) ==
    /\ Running
    /\ pc[w] = "recv"
    /\ stopped' = ClearFlags(stopped)
    /\ pc' = [pc EXCEPT ![w] = "fetch"]
    /\ UNCHANGED << nt, depth, anchors, filtered, orch, joinIdx, chan, task, todo,
                    sid, aid, out, pages, links, pagesLock, linksLock, sentCnt,
                    deqCnt, filteredSeen, regLog, nodesFile, edgesFile, debugBuild >>

\* The head of scrape_with_depth: get_page_content(..)? and get_anchor_list.
\* The request may fail (the ? returns Err from the thread); a filtered page
\* or an empty anchor list returns Ok(vec![]), which sends nothing.
Fetch(w, next) ==
    /\ Running
    /\ pc[w] = "fetch"
    /\ \E failed \in BOOLEAN :
         IF failed
           THEN /\ pc' = [pc EXCEPT ![w] = "err"]
                /\ task' = [task EXCEPT ![w] = NoTask]
                /\ UNCHANGED << todo, filteredSeen >>
           ELSE LET u == task[w][1]
                    content == PageContent(u, filtered)
                IN  /\ filteredSeen' = IF content = "None"
                                         THEN filteredSeen \cup {u}
                                         ELSE filteredSeen
                    /\ IF SkipTask(content, anchors[u])
                         THEN /\ pc' = [pc EXCEPT ![w] = "select"]
                              /\ task' = [task EXCEPT ![w] = NoTask]
                              /\ todo' = todo
                         ELSE /\ pc' = [pc EXCEPT ![w] = next]
                              /\ todo' = [todo EXCEPT ![w] = anchors[u]]
                              /\ task' = task
    /\ UNCHANGED << nt, depth, anchors, filtered, orch, joinIdx, chan, stopped,
                    sid, aid, out, pages, links, pagesLock, linksLock, sentCnt,
                    deqCnt, regLog, nodesFile, edgesFile, debugBuild >>

\* out_links.into_iter().for_each(|link| tx.send((link, depth - 1)).unwrap())
Send(w) ==
    /\ Running
    /\ pc[w] = "send"
    /\ chan' = Append(chan, <<Head(out[w]), task[w][2] - 1>>)
    /\ sentCnt' = [sentCnt EXCEPT ![Head(out[w])] = @ + 1]
    /\ out' = [out EXCEPT ![w] = Tail(@)]
    /\ IF Tail(out[w]) = << >>
         THEN /\ pc' = [pc EXCEPT ![w] = "select"]
              /\ task' = [task EXCEPT ![w] = NoTask]
         ELSE UNCHANGED << pc, task >>
    /\ UNCHANGED << nt, depth, anchors, filtered, orch, joinIdx, stopped, todo,
                    sid, aid, pages, links, pagesLock, linksLock, deqCnt,
                    filteredSeen, regLog, nodesFile, edgesFile, debugBuild >>

\* default => lock the flags, set the own one, count, drop the lock.
MarkIdle(w) ==
    /\ Running
    /\ pc[w] = "default"
    /\ stopped' = [stopped EXCEPT ![w] = TRUE]
    /\ pc' = [pc EXCEPT ![w] = IF AllStopped(StoppedCount(stopped'), nt)
                                  THEN "assert" ELSE "sleep"]
    /\ UNCHANGED << nt, depth, anchors, filtered, orch, joinIdx, chan, task, todo,
                    sid, aid, out, pages, links, pagesLock, linksLock, sentCnt,
                    deqCnt, filteredSeen, regLog, nodesFile, edgesFile, debugBuild >>

\* assert!(rx.len() == 0, ..); break   (debug_assert! in worker.rs)
CheckEmpty(w, asserts) ==
    /\ Running
    /\ pc[w] = "assert"
    /\ pc' = [pc EXCEPT ![w] = IF asserts /\ Len(chan) # 0 THEN "panic" ELSE "done"]
    /\ UNCHANGED << nt, depth, anchors, filtered, orch, joinIdx, chan, stopped, task,
                    todo, sid, aid, out, pages, links, pagesLock, linksLock, sentCnt,
                    deqCnt, filteredSeen, regLog, nodesFile, edgesFile, debugBuild >>

\* thread::sleep(Duration::from_millis(500)), then the next iteration
Wake(w) ==
    /\ Running
    /\ pc[w] = "sleep"
    /\ pc' = [pc EXCEPT ![w] = "select"]
    /\ UNCHANGED << nt, depth, anchors, filtered, orch, joinIdx, chan, stopped, task,
                    todo, sid, aid, out, pages, links, pagesLock, linksLock, sentCnt,
                    deqCnt, filteredSeen, regLog, nodesFile, edgesFile, debugBuild >>

\* ------------------------------------- the mutex-guarded graph store
LockPagesNoWait(w) ==
    /\ Running
    /\ pc[w] = "lockPages"
    /\ pc' = [pc EXCEPT ![w] = "lockLinks"]
    /\ pagesLock' = w
    /\ UNCHANGED << nt, depth, anchors, filtered, orch, joinIdx, chan, stopped, task,
                    todo, sid, aid, out, pages, links, linksLock, sentCnt, deqCnt,
                    filteredSeen, regLog, nodesFile, edgesFile, debugBuild >>

\* let mut own_pages = pages.lock().unwrap();   (a poisoned mutex panics)
LockPages(w) ==
    /\ Running
    /\ pc[w] = "lockPages"
    /\ pagesLock \in {Free, Poisoned}
    /\ IF pagesLock = Poisoned
         THEN pc' = [pc EXCEPT ![w] = "panic"] /\ pagesLock' = pagesLock
         ELSE pc' = [pc EXCEPT ![w] = "lockLinks"] /\ pagesLock' = w
    /\ UNCHANGED << nt, depth, anchors, filtered, orch, joinIdx, chan, stopped, task,
                    todo, sid, aid, out, pages, links, linksLock, sentCnt, deqCnt,
                    filteredSeen, regLog, nodesFile, edgesFile, debugBuild >>

\* let mut own_links = links.lock().unwrap();
LockLinks(w) ==
    /\ Running
    /\ pc[w] = "lockLinks"
    /\ linksLock \in {Free, Poisoned}
    /\ IF linksLock = Poisoned
         THEN /\ pc' = [pc EXCEPT ![w] = "panic"]
              /\ pagesLock' = Poisoned
              /\ linksLock' = linksLock
         ELSE /\ pc' = [pc EXCEPT ![w] = "startUrl"]
              /\ linksLock' = w
              /\ pagesLock' = pagesLock
    /\ UNCHANGED << nt, depth, anchors, filtered, orch, joinIdx, chan, stopped, task,
                    todo, sid, aid, out, pages, links, sentCnt, deqCnt,
                    filteredSeen, regLog, nodesFile, edgesFile, debugBuild >>

\* let start_url_id = if let Some(id) = own_pages.get(start_url) { *id }
\*                    else { new_id = own_pages.len(); insert; new_id }
StartUrl(w) ==
    /\ Running
    /\ pc[w] = "startUrl"
    /\ LET u == task[w][1]
       IN  IF u \in DOMAIN pages
             THEN /\ sid' = [sid EXCEPT ![w] = pages[u]]
                  /\ UNCHANGED << pages, regLog >>
             ELSE /\ sid' = [sid EXCEPT ![w] = NewId(pages)]
                  /\ pages' = MapInsert(pages, u, NewId(pages))
                  /\ regLog' = regLog \cup {<<u, "start", NewId(pages)>>}
    /\ pc' = [pc EXCEPT ![w] = "anchor"]
    /\ UNCHANGED << nt, depth, anchors, filtered, orch, joinIdx, chan, stopped, task,
                    todo, aid, out, links, pagesLock, linksLock, sentCnt, deqCnt,
                    filteredSeen, nodesFile, edgesFile, debugBuild >>

\* One iteration of `for anchor in anchor_list`, both locks held.
Anchor(w) ==
    /\ Running
    /\ pc[w] = "anchor"
    /\ todo[w] # << >>
    /\ LET a == Head(todo[w])
           isNew == a \notin DOMAIN pages
           anchor_id == IF isNew THEN NewId(pages) ELSE pages[a]
       IN  /\ pages' = IF isNew THEN MapInsert(pages, a, anchor_id) ELSE pages
           /\ regLog' = IF isNew THEN regLog \cup {<<a, "anchor", anchor_id>>}
                                  ELSE regLog
           /\ links' = links \cup {<<sid[w], anchor_id>>}
           /\ out' = IF FollowOn(isNew, a) THEN [out EXCEPT ![w] = Append(@, a)]
                                           ELSE out
           /\ IF isNew /\ <<sid[w], anchor_id>> \in links
                THEN \* assert!(own_links.insert(..)) fails with both guards held
                     /\ pc' = [pc EXCEPT ![w] = "panic"]
                     /\ pagesLock' = Poisoned
                     /\ linksLock' = Poisoned
                     /\ todo' = todo
                ELSE /\ todo' = [todo EXCEPT ![w] = Tail(@)]
                     /\ UNCHANGED << pc, pagesLock, linksLock >>
    /\ UNCHANGED << nt, depth, anchors, filtered, orch, joinIdx, chan, stopped, task,
                    sid, aid, sentCnt, deqCnt, filteredSeen, nodesFile, edgesFile,
                    debugBuild >>

ReturnKeepsLinksLock(w) ==
    /\ Running
    /\ pc[w] = "anchor"
    /\ todo[w] = << >>
    /\ pagesLock' = Free
    /\ linksLock' = linksLock
    /\ sid' = [sid EXCEPT ![w] = NoId]
    /\ IF ShouldFollow(task[w][2]) /\ out[w] # << >>
         THEN /\ pc' = [pc EXCEPT ![w] = "send"]
              /\ UNCHANGED << task, out >>
         ELSE /\ pc' = [pc EXCEPT ![w] = "select"]
              /\ task' = [task EXCEPT ![w] = NoTask]
              /\ out' = [out EXCEPT ![w] = << >>]
    /\ UNCHANGED << nt, depth, anchors, filtered, orch, joinIdx, chan, stopped, todo,
                    aid, pages, links, sentCnt, deqCnt, filteredSeen, regLog,
                    nodesFile, edgesFile, debugBuild >>

\* Ok(out_links): the guards are dropped; then `if depth > 1` in scrape.
Return(w) ==
    /\ Running
    /\ pc[w] = "anchor"
    /\ todo[w] = << >>
    /\ pagesLock' = Free
    /\ linksLock' = Free
    /\ sid' = [sid EXCEPT ![w] = NoId]
    /\ IF ShouldFollow(task[w][2]) /\ out[w] # << >>
         THEN /\ pc' = [pc EXCEPT ![w] = "send"]
              /\ UNCHANGED << task, out >>
         ELSE /\ pc' = [pc EXCEPT ![w] = "select"]
              /\ task' = [task EXCEPT ![w] = NoTask]
              /\ out' = [out EXCEPT ![w] = << >>]
    /\ UNCHANGED << nt, depth, anchors, filtered, orch, joinIdx, chan, stopped, todo,
                    aid, pages, links, sentCnt, deqCnt, filteredSeen, regLog,
                    nodesFile, edgesFile, debugBuild >>

\* ------------------------------------------------------- save_to_file
HasSame(L, source, dest) == <<source, dest>> \in L

\* own_links.contains(&(*dest, *source))
HasReverse(L, source, dest) == <<dest, source>> \in L

\* visited_edges: the links whose reverse is a link too
VisitedEdges(L) == {e \in L : HasReverse(L, e[1], e[2])}

\* visited_nodes_set: both ends of every visited edge
VisitedNodesSet(L) == {e[1] : e \in VisitedEdges(L)} \cup {e[2] : e \in VisitedEdges(L)}

\* visited_nodes: id -> url for the registered ids in visited_nodes_set
\* (a HashMap keyed by id: one url per id)
VisitedNodes(P, L) ==
    {<<i, CHOOSE u \in DOMAIN P : P[u] = i>> :
        i \in {P[u] : u \in DOMAIN P} \cap VisitedNodesSet(L)}

\* undirected: true in WikipediaScraper::new
Undirected == TRUE

\* main: scraper.scrape()?; scraper.save_to_file(output_file_path)?
SaveToFile ==
    /\ orch = "ok"
    /\ IF ~Undirected
         THEN /\ nodesFile' = {<<pages[u], u>> : u \in DOMAIN pages}
              /\ edgesFile' = links
         ELSE /\ nodesFile' = VisitedNodes(pages, links)
              /\ edgesFile' = VisitedEdges(links)
    /\ orch' = "saved"
    /\ UNCHANGED << nt, depth, anchors, filtered, joinIdx, chan, stopped, pc, task,
                    todo, sid, aid, out, pages, links, pagesLock, linksLock, sentCnt,
                    deqCnt, filteredSeen, regLog, debugBuild >>

\* ------------------------------------------------- the mutex-guarded crawl
WorkerStep(w) ==
    \/ Select(w)
    \/ ClearAll(w)
    \/ Fetch(w, "lockPages")
    \/ LockPages(w)
    \/ LockLinks(w)
    \/ StartUrl(w)
    \/ Anchor(w)
    \/ Return(w)
    \/ Send(w)
    \/ MarkIdle(w)
    \/ CheckEmpty(w, TRUE)
    \/ Wake(w)

Orchestrator == SendSeed \/ Spawn \/ Join \/ SaveToFile

Next ==
    \/ SendSeed
    \/ Spawn
    \/ Join
    \/ SaveToFile
    \/ \E w \in Workers : Select(w)
    \/ \E w \in Workers : ClearAll(w)
    \/ \E w \in Workers : Fetch(w, "lockPages")
    \/ \E w \in Workers : LockPages(w)
    \/ \E w \in Workers : LockLinks(w)
    \/ \E w \in Workers : StartUrl(w)
    \/ \E w \in Workers : Anchor(w)
    \/ \E w \in Workers : Return(w)
    \/ \E w \in Workers : Send(w)
    \/ \E w \in Workers : MarkIdle(w)
    \/ \E w \in Workers : CheckEmpty(w, TRUE)
    \/ \E w \in Workers : Wake(w)

Spec == Init /\ [][Next]_vars

\* The crawl of the five-page site, with and without a keyword filter.
InitOrder == InitOn({FALSE}, {OrderSite}, { {}, {"C"} })

SpecOrder == InitOrder /\ [][Next]_vars

\* Threads are scheduled fairly: a thread that can take a step takes one.
\* The liveness checks run on the sites and filters that termination depends on.
InitLive ==
    /\ Init
    /\ anchors \in { Site(<<"A">>, <<"B">>, <<"C">>, <<"S">>),
                     Site(<<"A", "X">>, <<"S">>, << >>, << >>) }
    /\ filtered \in { {}, {Seed} }

FairSpec ==
    /\ InitLive
    /\ [][Next]_vars
    /\ WF_vars(Orchestrator)
    /\ \A w \in 0 .. MaxThreads - 1 : WF_vars(w \in Workers /\ WorkerStep(w))

\* ---------------------------------------- the lock-free graph store
\* (worker.rs: flurry HashMap/HashSet; every get, len and insert is atomic
\* on its own, nothing spans two of them)
\* self.pages.get(start_url.as_ref(), &pages_guard)
GetStart(w) ==
    /\ Running
    /\ pc[w] = "getStart"
    /\ LET u == task[w][1]
       IN  IF u \in DOMAIN pages
             THEN /\ sid' = [sid EXCEPT ![w] = pages[u]]
                  /\ pc' = [pc EXCEPT ![w] = "getAnchor"]
             ELSE /\ sid' = sid
                  /\ pc' = [pc EXCEPT ![w] = "lenStart"]
    /\ UNCHANGED << nt, depth, anchors, filtered, orch, joinIdx, chan, stopped, task,
                    todo, aid, out, pages, links, pagesLock, linksLock, sentCnt,
                    deqCnt, filteredSeen, regLog, nodesFile, edgesFile, debugBuild >>

\* let new_id = self.pages.len() as ID;
LenStart(w) ==
    /\ Running
    /\ pc[w] = "lenStart"
    /\ sid' = [sid EXCEPT ![w] = NewId(pages)]
    /\ pc' = [pc EXCEPT ![w] = "insStart"]
    /\ UNCHANGED << nt, depth, anchors, filtered, orch, joinIdx, chan, stopped, task,
                    todo, aid, out, pages, links, pagesLock, linksLock, sentCnt,
                    deqCnt, filteredSeen, regLog, nodesFile, edgesFile, debugBuild >>

\* self.pages.insert(start_url.as_ref().to_string(), new_id, &pages_guard);
InsStart(w) ==
    /\ Running
    /\ pc[w] = "insStart"
    /\ pages' = MapInsert(pages, task[w][1], sid[w])
    /\ regLog' = regLog \cup {<<task[w][1], "start", sid[w]>>}
    /\ pc' = [pc EXCEPT ![w] = "getAnchor"]
    /\ UNCHANGED << nt, depth, anchors, filtered, orch, joinIdx, chan, stopped, task,
                    todo, sid, aid, out, links, pagesLock, linksLock, sentCnt,
                    deqCnt, filteredSeen, nodesFile, edgesFile, debugBuild >>

\* if let Some(anchor_id) = self.pages.get(&anchor, &pages_guard)
GetAnchor(w) ==
    /\ Running
    /\ pc[w] = "getAnchor"
    /\ todo[w] # << >>
    /\ LET a == Head(todo[w])
       IN  IF a \in DOMAIN pages
             THEN /\ aid' = [aid EXCEPT ![w] = pages[a]]
                  /\ pc' = [pc EXCEPT ![w] = "linkOld"]
             ELSE /\ aid' = aid
                  /\ pc' = [pc EXCEPT ![w] = "lenAnchor"]
    /\ UNCHANGED << nt, depth, anchors, filtered, orch, joinIdx, chan, stopped, task,
                    todo, sid, out, pages, links, pagesLock, linksLock, sentCnt,
                    deqCnt, filteredSeen, regLog, nodesFile, edgesFile, debugBuild >>

\* self.links.insert((start_url_id, *anchor_id), &links_guard);
LinkOld(w) ==
    /\ Running
    /\ pc[w] = "linkOld"
    /\ links' = links \cup {<<sid[w], aid[w]>>}
    /\ todo' = [todo EXCEPT ![w] = Tail(@)]
    /\ aid' = [aid EXCEPT ![w] = NoId]
    /\ pc' = [pc EXCEPT ![w] = "getAnchor"]
    /\ UNCHANGED << nt, depth, anchors, filtered, orch, joinIdx, chan, stopped, task,
                    sid, out, pages, pagesLock, linksLock, sentCnt, deqCnt,
                    filteredSeen, regLog, nodesFile, edgesFile, debugBuild >>

\* let anchor_id = self.pages.len() as ID;
LenAnchor(w) ==
    /\ Running
    /\ pc[w] = "lenAnchor"
    /\ aid' = [aid EXCEPT ![w] = NewId(pages)]
    /\ pc' = [pc EXCEPT ![w] = "insAnchor"]
    /\ UNCHANGED << nt, depth, anchors, filtered, orch, joinIdx, chan, stopped, task,
                    todo, sid, out, pages, links, pagesLock, linksLock, sentCnt,
                    deqCnt, filteredSeen, regLog, nodesFile, edgesFile, debugBuild >>

\* let anchor_insert_res = self.pages.insert(anchor.clone(), anchor_id, ..);
\* debug_assert!(anchor_insert_res.is_none(), ..)
InsAnchor(w) ==
    /\ Running
    /\ pc[w] = "insAnchor"
    /\ LET a == Head(todo[w])
       IN  /\ pages' = MapInsert(pages, a, aid[w])
           /\ regLog' = regLog \cup {<<a, "anchor", aid[w]>>}
           /\ pc' = [pc EXCEPT ![w] = IF debugBuild /\ a \in DOMAIN pages
                                         THEN "panic" ELSE "linkNew"]
    /\ UNCHANGED << nt, depth, anchors, filtered, orch, joinIdx, chan, stopped, task,
                    todo, sid, aid, out, links, pagesLock, linksLock, sentCnt,
                    deqCnt, filteredSeen, nodesFile, edgesFile, debugBuild >>

\* let link_insert_res = self.links.insert((start_url_id, anchor_id), ..);
\* debug_assert!(link_insert_res, ..); then the push to out_links
LinkNew(w) ==
    /\ Running
    /\ pc[w] = "linkNew"
    /\ links' = links \cup {<<sid[w], aid[w]>>}
    /\ IF debugBuild /\ <<sid[w], aid[w]>> \in links
         THEN /\ pc' = [pc EXCEPT ![w] = "panic"]
              /\ UNCHANGED << todo, aid, out >>
         ELSE /\ out' = IF FollowOn(TRUE, Head(todo[w]))
                          THEN [out EXCEPT ![w] = Append(@, Head(todo[w]))]
                          ELSE out
              /\ todo' = [todo EXCEPT ![w] = Tail(@)]
              /\ aid' = [aid EXCEPT ![w] = NoId]
              /\ pc' = [pc EXCEPT ![w] = "getAnchor"]
    /\ UNCHANGED << nt, depth, anchors, filtered, orch, joinIdx, chan, stopped, task,
                    sid, pages, pagesLock, linksLock, sentCnt, deqCnt,
                    filteredSeen, regLog, nodesFile, edgesFile, debugBuild >>

\* Ok(out_links), then `if depth > 1` in Worker::scrape
ReturnLF(w) ==
    /\ Running
    /\ pc[w] = "getAnchor"
    /\ todo[w] = << >>
    /\ sid' = [sid EXCEPT ![w] = NoId]
    /\ IF ShouldFollow(task[w][2]) /\ out[w] # << >>
         THEN /\ pc' = [pc EXCEPT ![w] = "send"]
              /\ UNCHANGED << task, out >>
         ELSE /\ pc' = [pc EXCEPT ![w] = "select"]
              /\ task' = [task EXCEPT ![w] = NoTask]
              /\ out' = [out EXCEPT ![w] = << >>]
    /\ UNCHANGED << nt, depth, anchors, filtered, orch, joinIdx, chan, stopped, todo,
                    aid, pages, links, pagesLock, linksLock, sentCnt, deqCnt,
                    filteredSeen, regLog, nodesFile, edgesFile, debugBuild >>

\* ------------------------------------------------- the lock-free crawl
\* Worker::scrape run by the same orchestration, in either build.
InitLF == InitWith(BOOLEAN)

NextLF ==
    \/ SendSeed
    \/ Spawn
    \/ Join
    \/ \E w \in Workers : Select(w)
    \/ \E w \in Workers : ClearAll(w)
    \/ \E w \in Workers : Fetch(w, "getStart")
    \/ \E w \in Workers : GetStart(w)
    \/ \E w \in Workers : LenStart(w)
    \/ \E w \in Workers : InsStart(w)
    \/ \E w \in Workers : GetAnchor(w)
    \/ \E w \in Workers : LinkOld(w)
    \/ \E w \in Workers : LenAnchor(w)
    \/ \E w \in Workers : InsAnchor(w)
    \/ \E w \in Workers : LinkNew(w)
    \/ \E w \in Workers : ReturnLF(w)
    \/ \E w \in Workers : Send(w)
    \/ \E w \in Workers : MarkIdle(w)
    \/ \E w \in Workers : CheckEmpty(w, debugBuild)
    \/ \E w \in Workers : Wake(w)

SpecLF == InitLF /\ [][NextLF]_vars

\* ------------------------------------------------------------ properties
AllBroken == \A w \in Workers : pc[w] = "done"
SomeFetchFailed == \E w \in Workers : pc[w] = "err"

\* C1: when no fetch fails, under fair scheduling every worker eventually
\* breaks out of its scrape loop.
C1_EveryWorkerBreaks == <>(AllBroken \/ SomeFetchFailed)

\* C2: once all N workers have broken out of their loops, the channel is
\* empty and every idle flag is true.
C2_QuiescentAtEnd ==
    AllBroken =>
        /\ chan = << >>
        /\ \A u \in URLs : deqCnt[u] = sentCnt[u]
        /\ \A w \in Workers : stopped[w] /\ task[w] = NoTask /\ out[w] = << >>

C2_Witness ==
    /\ AllBroken
    /\ nt >= 2
    /\ sentCnt["A"] = 1
    /\ Cardinality(DOMAIN pages) >= 3

\* C3: in the mutex-guarded store no identifier belongs to two URLs, and a
\* registered URL keeps its identifier and is never removed.
IdsInjective ==
    \A u, v \in DOMAIN pages : pages[u] = pages[v] => u = v

RegistryStable ==
    \A u \in DOMAIN pages : u \in DOMAIN pages' /\ pages'[u] = pages[u]

C3_UniqueStableIds == []IdsInjective /\ [][RegistryStable]_vars

C3_Witness ==
    /\ nt >= 2
    /\ Cardinality(DOMAIN pages) = 4
    /\ \E w, v \in Workers : w # v /\ pc[w] = "anchor" /\ pc[v] = "lockPages"

\* C4: in the lock-free store, when the pages A and B, both linking to the
\* not yet registered C, are processed by the workers, C ends with exactly
\* one identifier, no other URL shares it, and both edges (id(A), id(C)) and
\* (id(B), id(C)) are in the final link set.
C4_RaceOnC ==
    ( /\ AllBroken
      /\ anchors["A"] = <<"C">> /\ anchors["B"] = <<"C">>
      /\ deqCnt["A"] >= 1 /\ deqCnt["B"] >= 1
      /\ {"A", "B"} \cap filtered = {}
      /\ {"A", "B", "C"} \subseteq DOMAIN pages )
    => /\ Cardinality({r[3] : r \in {x \in regLog : x[1] = "C"}}) = 1
       /\ \A u \in DOMAIN pages \ {"C"} : pages[u] # pages["C"]
       /\ <<pages["A"], pages["C"]>> \in links
       /\ <<pages["B"], pages["C"]>> \in links

\* C5: every registered URL is within `depth` links of the seed in the
\* crawled link graph; nothing farther away is ever registered.
RECURSIVE LinkReach(_)
LinkReach(k) ==
    IF Seed \notin DOMAIN pages THEN {}
    ELSE IF k = 0 THEN {pages[Seed]}
    ELSE LET near == LinkReach(k - 1)
         IN  near \cup {e[2] : e \in {l \in links : l[1] \in near}}

C5_DepthBound ==
    \A u \in DOMAIN pages : pages[u] \in LinkReach(depth)

C5_Witness ==
    /\ AllBroken
    /\ depth = 2
    /\ anchors["B"] = <<"C">>
    /\ "B" \in DOMAIN pages
    /\ "C" \notin DOMAIN pages

\* C6: a fatal fetch error in one worker eventually aborts the crawl: the
\* join completes with a failure.
C6_FetchErrorAborts == SomeFetchFailed ~> (orch = "aborted")

\* C7: in the mutex-guarded crawl every URL is sent to the channel at most
\* once, and dequeued at most once.
C7_SentAtMostOnce ==
    \A u \in URLs : sentCnt[u] <= 1 /\ deqCnt[u] <= 1

C7_Witness ==
    /\ AllBroken
    /\ nt >= 2
    /\ anchors["A"] = <<"C">> /\ anchors["B"] = <<"C">>
    /\ {"A", "B", "C"} \subseteq DOMAIN pages
    /\ {<<pages["A"], pages["C"]>>, <<pages["B"], pages["C"]>>} \subseteq links
    /\ sentCnt["C"] = 1

C9_FilteredSeed ==
    /\ [](Seed \in filtered =>
            /\ pages = << >>
            /\ links = {}
            /\ \A u \in URLs : sentCnt[u] <= (IF u = Seed THEN 1 ELSE 0))
    /\ (Seed \in filteredSeen) ~> AllBroken

C9_Witness ==
    /\ Seed \in filteredSeen
    /\ nt = MaxThreads
    /\ AllBroken
    /\ orch = "saved"

\* C10: the undirected projection keeps exactly the links whose reverse is
\* a link, and exactly the registered identifiers at an end of a kept link.
C10_Projection ==
    orch = "saved" =>
        /\ edgesFile = {e \in links : <<e[2], e[1]>> \in links}
        /\ \A e \in edgesFile : <<e[2], e[1]>> \in links /\ <<e[2], e[1]>> \in edgesFile
        /\ {r[1] : r \in nodesFile} =
              {i \in {pages[u] : u \in DOMAIN pages} :
                  \E e \in edgesFile : i = e[1] \/ i = e[2]}
        /\ \A r \in nodesFile : r[2] \in DOMAIN pages /\ pages[r[2]] = r[1]

C10_Witness ==
    /\ orch = "saved"
    /\ edgesFile # {}
    /\ edgesFile # links
    /\ \E u \in DOMAIN pages : pages[u] \notin {r[1] : r \in nodesFile}

AllIdle == \A w \in Workers : stopped[w]

\* C11: whenever all N idle flags are true, no worker holds a dequeued
\* task it has not finished processing.
C11_AllIdleNoTaskHeld ==
    AllIdle => \A w \in Workers : task[w] = NoTask

\* C12: whenever all N idle flags are true, the channel holds no task.
C12_AllIdleChannelEmpty ==
    AllIdle => chan = << >>

C12_Witness ==
    /\ AllIdle
    /\ nt >= 2
    /\ \E w \in Workers : pc[w] = "recv"
    /\ Cardinality(DOMAIN pages) >= 2

\* C13: the assertion before the break never fails: a worker that has
\* counted N true flags reads a channel length of 0.
C13_AssertNeverFails ==
    \A w \in Workers : pc[w] = "assert" => Len(chan) = 0

\* C14: once a worker has broken out of its loop, no worker dequeues a
\* task or clears an idle flag.
C14_NothingAfterBreak ==
    [][(\E w \in Workers : pc[w] = "done") =>
          /\ deqCnt' = deqCnt
          /\ \A i \in Workers : stopped[i] => stopped'[i]]_vars

\* C15: flag i becomes true only by worker i's step after an empty poll,
\* and it is false all the while worker i processes a task, sends included.
Processing(w) ==
    pc[w] \in {"fetch", "lockPages", "lockLinks", "startUrl", "anchor", "send"}

C15_OwnFlagFalseWhileBusy ==
    /\ [](\A w \in Workers : Processing(w) => ~stopped[w])
    /\ [][\A i \in Workers :
            (~stopped[i] /\ stopped'[i]) =>
                /\ pc[i] = "default" /\ pc'[i] \in {"assert", "sleep"}
                /\ \A j \in Workers \ {i} : pc'[j] = pc[j]]_vars
    /\ [][\A i \in Workers :
            (pc[i] # "default" /\ pc'[i] = "default") => chan = << >>]_vars

C15_Witness ==
    /\ nt >= 2
    /\ \E w, v \in Workers :
          /\ pc[w] = "send" /\ ~stopped[w]
          /\ stopped[v] /\ pc[v] = "sleep"

\* C16: a follow-on task is sent only for an internal anchor the sending
\* worker has just inserted in the registry, only from a task of remaining
\* depth above 1, and with that depth less one; so every task has a depth
\* from 1 to the configured depth and a task of depth 1 sends nothing.
TaskDepthsInRange ==
    /\ \A i \in 1 .. Len(chan) : chan[i][2] \in 1 .. depth
    /\ \A w \in Workers : task[w] # NoTask => task[w][2] \in 1 .. depth
    /\ \A w \in Workers : pc[w] = "send" => task[w][2] > 1 /\ out[w] # << >>

PushedOnlyWhenInserted ==
    \A w \in Workers :
        Len(out'[w]) > Len(out[w]) =>
            \E a \in Internal :
                /\ out'[w] = Append(out[w], a)
                /\ a \notin DOMAIN pages
                /\ a \in DOMAIN pages'

SentOnlyFromOutLinks ==
    Len(chan') > Len(chan) =>
        \/ orch = "new" /\ chan' = Append(chan, <<Seed, depth>>)
        \/ \E w \in Workers :
              /\ pc[w] = "send"
              /\ task[w][2] > 1
              /\ chan' = Append(chan, <<Head(out[w]), task[w][2] - 1>>)

C16_FollowOnTasks ==
    /\ []TaskDepthsInRange
    /\ [][PushedOnlyWhenInserted]_vars
    /\ [][SentOnlyFromOutLinks]_vars

C16_Witness ==
    /\ AllBroken
    /\ depth = 2
    /\ anchors["S"] = <<"A">> /\ anchors["A"] = <<"B">>
    /\ "B" \in DOMAIN pages
    /\ sentCnt["A"] = 1 /\ deqCnt["A"] = 1
    /\ sentCnt["B"] = 0

\* C17: a worker holds the pages lock and the links lock together from its
\* lookup of the task's URL to its last edge; only the holder reads or
\* changes the registry and the link set, and no page is visible with only
\* part of the edges of one processing step.
InStore(w) == pc[w] \in {"startUrl", "anchor"}

HoldsBothLocks ==
    /\ \A w \in Workers : InStore(w) => pagesLock = w /\ linksLock = w
    /\ Cardinality({w \in Workers : pc[w] = "lockLinks" \/ InStore(w)}) <= 1

NoPartialPage ==
    (\A w \in Workers : ~InStore(w)) =>
        \A u \in DOMAIN pages :
            (\E e \in links : e[1] = pages[u]) =>
                \A i \in 1 .. Len(anchors[u]) :
                    /\ anchors[u][i] \in DOMAIN pages
                    /\ <<pages[u], pages[anchors[u][i]]>> \in links

OnlyHolderChangesStore ==
    (pages' # pages \/ links' # links) =>
        \E w \in Workers :
            /\ InStore(w) /\ pagesLock = w /\ linksLock = w
            /\ \A v \in Workers \ {w} : pc'[v] = pc[v]

C17_CriticalSection ==
    /\ []HoldsBothLocks
    /\ []NoPartialPage
    /\ [][OnlyHolderChangesStore]_vars

C17_Witness ==
    \E w, v \in Workers :
        /\ w # v
        /\ pc[w] = "anchor" /\ Len(anchors[task[w][1]]) = 2 /\ Len(todo[w]) = 1
        /\ pc[v] = "lockPages"
        /\ pagesLock = w /\ linksLock = w

\* C18: in the mutex-guarded store the two duplicate-insertion assertions
\* never fail: the edge to a freshly registered anchor is never already in
\* the link set, also for a page that repeats an anchor or links to itself.
C18_InsertAssertsHold ==
    /\ pagesLock # Poisoned /\ linksLock # Poisoned
    /\ \A w \in Workers :
          (pc[w] = "anchor" /\ todo[w] # << >> /\ Head(todo[w]) \notin DOMAIN pages)
              => <<sid[w], Cardinality(DOMAIN pages)>> \notin links

C18_Witness ==
    \E w \in Workers :
        /\ pc[w] = "anchor"
        /\ task[w][1] = "S"
        /\ anchors["S"] = <<"S", "A", "A">>
        /\ todo[w] = << >>
        /\ links = {<<0, 0>>, <<0, 1>>}

\* C19: a task whose page is filtered out or has no anchors is abandoned:
\* the worker never enters the store with it, and the step that drops it
\* leaves the registry, the link set and the channel as they were.
Abandoned(w) ==
    /\ task[w] # NoTask
    /\ (task[w][1] \in filtered \/ anchors[task[w][1]] = << >>)

AbandonedStaysOutside ==
    \A w \in Workers : Abandoned(w) => pc[w] \in {"recv", "fetch"}

AbandonHasNoEffect ==
    \A w \in Workers :
        (Abandoned(w) /\ pc[w] = "fetch" /\ pc'[w] # "fetch") =>
            /\ pc'[w] \in {"select", "err"}
            /\ task'[w] = NoTask
            /\ pages' = pages /\ links' = links /\ chan' = chan
            /\ sentCnt' = sentCnt /\ out' = out

C19_AbandonedTaskNoEffect ==
    /\ []AbandonedStaysOutside
    /\ [][AbandonHasNoEffect]_vars

C19_Witness ==
    /\ filtered = {"A"} /\ "A" \in filteredSeen /\ deqCnt["A"] = 1
    /\ "A" \in DOMAIN pages
    /\ \A e \in links : e[1] # pages["A"]
    /\ \A w \in Workers : pc[w] = "select" /\ task[w] = NoTask
    /\ chan = << >>

\* ------------------------------------------------ the one-worker crawl
\* The anchors of a page that the for loop finds unregistered, in order.
RECURSIVE FirstNew(_, _)
FirstNew(as, P) ==
    IF as = << >> THEN << >>
    ELSE IF Head(as) \in P
           THEN FirstNew(Tail(as), P)
           ELSE << Head(as) >> \o FirstNew(Tail(as), P \cup {Head(as)})

\* The run of scrape() with num_threads = 1 and no failing fetch: the one
\* worker takes the tasks in channel order and finishes each before the next.
\* P is the set of registered URLs, L the set of links between URLs.
RECURSIVE SequentialCrawl(_, _, _)
SequentialCrawl(queue, P, L) ==
    IF queue = << >> THEN [urls |-> P, urlLinks |-> L]
    ELSE LET u == Head(queue)[1]
             d == Head(queue)[2]
         IN  IF SkipTask(PageContent(u, filtered), anchors[u])
               THEN SequentialCrawl(Tail(queue), P, L)
               ELSE LET P1 == P \cup {u}
                        Follows(a) == FollowOn(TRUE, a)
                        outLinks == SelectSeq(FirstNew(anchors[u], P1), Follows)
                        sends == IF ShouldFollow(d)
                                   THEN [i \in 1 .. Len(outLinks) |-> <<outLinks[i], d - 1>>]
                                   ELSE << >>
                        targets == {anchors[u][i] : i \in 1 .. Len(anchors[u])}
                    IN  SequentialCrawl(Tail(queue) \o sends,
                                        P1 \cup targets,
                                        L \cup {<<u, a>> : a \in targets})

\* The links of the store as pairs of URLs.
UrlLinks ==
    {e \in (DOMAIN pages) \X (DOMAIN pages) : <<pages[e[1]], pages[e[2]]>> \in links}

\* C20: every execution in which all workers have broken ends with the
\* registered URLs and the URL-to-URL links of the one-worker crawl of the
\* same seed, depth, filter and site, whatever the worker count and the
\* interleaving.
C20_OrderIndependent ==
    AllBroken =>
        LET ref == SequentialCrawl(<< <<Seed, depth>> >>, {}, {})
        IN  /\ DOMAIN pages = ref.urls
            /\ UrlLinks = ref.urlLinks

\* With one worker the store ends as the one-worker crawl says.
OneWorkerIsSequential == nt = 1 => C20_OrderIndependent

\* C21: the workers never deadlock on their locks: the pages lock is taken
\* before the links lock, a step that takes the idle-flag lock touches no
\* graph lock and a step that takes a graph lock touches no idle flag, and
\* a worker that waits for a graph lock waits for a holder that can go on.
WaitsForPages(w) == pc[w] = "lockPages" /\ pagesLock \in Workers
WaitsForLinks(w) == pc[w] = "lockLinks" /\ linksLock \in Workers

HolderCanStep(h) ==
    /\ h \in Workers
    /\ \/ pc[h] \in {"startUrl", "anchor"}
       \/ pc[h] = "lockLinks" /\ ~WaitsForLinks(h)

PagesBeforeLinks ==
    /\ \A w \in Workers : pc[w] = "lockLinks" => pagesLock = w
    /\ linksLock \in Workers => pagesLock = linksLock
    /\ pagesLock \in Workers => pc[pagesLock] \in {"lockLinks", "startUrl", "anchor"}

NoWaitOnStuckHolder ==
    \A w \in Workers :
        /\ WaitsForPages(w) => HolderCanStep(pagesLock)
        /\ WaitsForLinks(w) => HolderCanStep(linksLock)

FlagLockApart ==
    /\ stopped' # stopped => pagesLock' = pagesLock /\ linksLock' = linksLock
    /\ (pagesLock' # pagesLock \/ linksLock' # linksLock) => stopped' = stopped

C21_NoLockDeadlock ==
    /\ []PagesBeforeLinks
    /\ []NoWaitOnStuckHolder
    /\ [][FlagLockApart]_vars

C21_Witness ==
    /\ nt = 3
    /\ \E h \in Workers :
          /\ pagesLock = h /\ pc[h] = "lockLinks" /\ linksLock = Free
          /\ \E w \in Workers \ {h} : WaitsForPages(w)
          /\ \E i \in Workers \ {h} : stopped[i]

\* C22: in the mutex-guarded store the identifiers in the registry are
\* exactly 0 .. k-1 for k registered URLs, and a URL that is registered
\* receives the size the registry has at that moment.
RegisteredIds == {pages[u] : u \in DOMAIN pages}

IdsDense == RegisteredIds = 0 .. Cardinality(DOMAIN pages) - 1

NewGetsRegistrySize ==
    \A u \in (DOMAIN pages') \ (DOMAIN pages) :
        pages'[u] = Cardinality(DOMAIN pages)

C22_DenseIds ==
    /\ []IdsDense
    /\ [][NewGetsRegistrySize]_vars

C22_Witness ==
    /\ nt >= 2
    /\ Cardinality(DOMAIN pages) = 4
    /\ \E w, v \in Workers :
          /\ w # v
          /\ pc[w] = "anchor" /\ todo[w] = << >>
          /\ pc[v] = "lockPages"

\* C23: in the mutex-guarded store, whenever no worker holds a graph lock,
\* both ends of every link are identifiers present in the registry, and the
\* source end is the identifier of a URL that a worker dequeued and
\* processed (its page passed the filter and had anchors).
NoGraphLockHeld == pagesLock \notin Workers /\ linksLock \notin Workers

DequeuedAndProcessed(u) ==
    /\ deqCnt[u] >= 1
    /\ u \notin filtered
    /\ anchors[u] # << >>

C23_LinksReferenceRegistry ==
    NoGraphLockHeld =>
        \A e \in links :
            /\ e[2] \in RegisteredIds
            /\ \E u \in DOMAIN pages : pages[u] = e[1] /\ DequeuedAndProcessed(u)

C23_Witness ==
    /\ NoGraphLockHeld
    /\ nt >= 2
    /\ Cardinality(links) >= 3
    /\ \E w \in Workers : pc[w] = "send"
    /\ \E u \in DOMAIN pages : ~DequeuedAndProcessed(u)

====
